---- MODULE Spec2Model ----
(***************************************************************************)
(* Model of Sudoku.py: the Sudoku class (constructor, region getters,      *)
(* check, find_empty, is_valid) and the recursive backtrack_solve, run as  *)
(* an explicit stack machine, one step per statement group.                *)
(*                                                                         *)
(* A Python list is a function with domain 0..n-1, so that every index in  *)
(* the model is the index the source uses.  Python tuples are TLA+ tuples  *)
(* (1-based): the source's pos[0], pos[1] are pos[1], pos[2] here.         *)
(***************************************************************************)
EXTENDS Integers, FiniteSets, Sequences, TLC

\* ------------------------------------------------------------------ bounds
\* Depth of nested backtrack_solve frames at which the interpreter raises
\* RecursionError (CPython: sys.getrecursionlimit(), 1000 by default; scaled).
RecursionLimit == 14

\* Number of times the caller invokes solve() on one object.
MaxCalls == 2

\* ----------------------------------------------------------- Python values
\* Python's None as a cell value.
None == -1

\* The falsy value find_empty returns when no cell is empty (None in the
\* source; backtrack_solve only tests it with "not empty").
NoCell == << >>

\* A Python list literal, 0-based.
L(s) == [k \in 0..(Len(s) - 1) |-> s[k + 1]]

\* len(l)
PyLen(l) == Cardinality(DOMAIN l)

\* set(l)
Values(l) == {l[k] : k \in DOMAIN l}

MinOf(S) == CHOOSE m \in S : \A n \in S : m <= n

\* l[a:b] taking the element at b as well.
Slice_inclusive(l, a, b) ==
    LET hi == IF b + 1 < PyLen(l) THEN b + 1 ELSE PyLen(l)
    IN  [k \in 0..(hi - a - 1) |-> l[a + k]]

\* l[a:b] for 0 <= a <= b (the slice is clamped to the list).
Slice(l, a, b) ==
    LET hi == IF b < PyLen(l) THEN b ELSE PyLen(l)
    IN  [k \in 0..(hi - a - 1) |-> l[a + k]]

\* zip(*board): one tuple per column, truncated to the shortest row.
Zip(b) ==
    LET n == PyLen(b)
        m == IF n = 0 THEN 0 ELSE MinOf({PyLen(b[r]) : r \in DOMAIN b})
    IN  [c \in 0..(m - 1) |-> [r \in 0..(n - 1) |-> b[r][c]]]

\* int(e) if e else None
Coerce(e) == IF e = None \/ e = 0 THEN None ELSE e

\* [[int(e) if e else None for e in column] for column in zip(*board)]
Construct(b) ==
    LET z == Zip(b)
    IN  [c \in DOMAIN z |-> [r \in DOMAIN z[c] |-> Coerce(z[c][r])]]

\* ------------------------------------------------------------ Board queries
\* get_row returning the stored list at idx (storage taken as row-wise).
get_row_as_stored(sol, idx) == sol[idx]

get_row(sol, idx) == [c \in DOMAIN sol |-> sol[c][idx]]

get_column(sol, idx) == sol[idx]

\* get_nine_square with the two block indices taken the other way round.
get_nine_square_swapped(sol, x, y) ==
    LET part == Slice(sol, 3 * y, 3 * y + 3)
    IN  [k \in DOMAIN part |-> Slice(part[k], 3 * x, 3 * x + 3)]

get_nine_square(sol, x, y) ==
    LET part == Slice(sol, 3 * x, 3 * x + 3)
    IN  [k \in DOMAIN part |-> Slice(part[k], 3 * y, 3 * y + 3)]

\* set(value for row in square for value in row)
Flat(sq) == UNION {Values(sq[k]) : k \in DOMAIN sq}

\* check_row comparing with set(range(1, 9)).
check_row_short(sol, row) == Values(get_row(sol, row)) = 1..8

check_row(sol, row) == Values(get_row(sol, row)) = 1..9

check_column(sol, column) == Values(get_column(sol, column)) = 1..9

check_nine_square(sol, x, y) == Flat(get_nine_square(sol, x, y)) = 1..9

check(sol) ==
    /\ \A idx \in 0..8 : check_row(sol, idx) /\ check_column(sol, idx)
    /\ \A x \in 0..2 : \A y \in 0..2 : check_nine_square(sol, x, y)

\* The scan with the emptiness test inverted ("is not None").
RECURSIVE scan_from_inverted(_, _)
scan_from_inverted(sol, k) ==
    IF k = 81 THEN NoCell
    ELSE LET i == k \div 9
             j == k % 9
         IN  IF sol[j][i] # None THEN <<j, i>>
             ELSE scan_from_inverted(sol, k + 1)

\* The scan with the loops nested the other way round (j outer, i inner).
RECURSIVE scan_from_column_major(_, _)
scan_from_column_major(sol, k) ==
    IF k = 81 THEN NoCell
    ELSE LET j == k \div 9
             i == k % 9
         IN  IF sol[j][i] = None THEN <<j, i>>
             ELSE scan_from_column_major(sol, k + 1)

\* The two nested loops of find_empty, k = 9 * i + j.
RECURSIVE scan_from(_, _)
scan_from(sol, k) ==
    IF k = 81 THEN NoCell
    ELSE LET i == k \div 9
             j == k % 9
         IN  IF sol[j][i] = None THEN <<j, i>> ELSE scan_from(sol, k + 1)

\* find_empty whose outer loop is range(8): the last index is never scanned.
find_empty_short(sol) ==
    LET e == scan_from(sol, 0)
    IN  IF e # NoCell /\ e[2] < 8 THEN e ELSE NoCell

find_empty(sol) == scan_from(sol, 0)

\* is_valid reading pos as (row, column): the two line tests swapped.
is_valid_swapped(sol, num, pos) ==
    IF num \in Values(get_row(sol, pos[1])) THEN FALSE
    ELSE IF num \in Values(get_column(sol, pos[2])) THEN FALSE
    ELSE LET x == pos[1] \div 3
             y == pos[2] \div 3
         IN  IF num \in Flat(get_nine_square(sol, x, y)) THEN FALSE ELSE TRUE

is_valid(sol, num, pos) ==
    IF num \in Values(get_row(sol, pos[2])) THEN FALSE
    ELSE IF num \in Values(get_column(sol, pos[1])) THEN FALSE
    ELSE LET x == pos[1] \div 3
             y == pos[2] \div 3
         IN  IF num \in Flat(get_nine_square(sol, x, y)) THEN FALSE ELSE TRUE

\* ------------------------------------------------------------------ inputs
\* The puzzle embedded in the entry point.
ExamplePuzzle ==
    L(<< L(<<4, 1, None, 3, None, 6, None, 9, 7>>),
         L(<<6, None, None, 7, None, None, None, 5, None>>),
         L(<<None, None, None, None, None, None, None, None, None>>),
         L(<<None, None, 9, None, 7, 3, None, None, 2>>),
         L(<<None, None, 8, None, None, None, 9, None, None>>),
         L(<<7, None, None, 9, 8, None, 6, None, None>>),
         L(<<None, None, None, None, None, None, None, None, None>>),
         L(<<None, 3, None, None, None, 8, None, None, 6>>),
         L(<<9, 5, None, 6, None, 7, None, 3, 8>>) >>)

\* The legal completion of ExamplePuzzle (row-major, like the input).
Solved ==
    L(<< L(<<4, 1, 5, 3, 2, 6, 8, 9, 7>>),
         L(<<6, 8, 3, 7, 4, 9, 2, 5, 1>>),
         L(<<2, 9, 7, 8, 5, 1, 3, 6, 4>>),
         L(<<5, 6, 9, 4, 7, 3, 1, 8, 2>>),
         L(<<3, 4, 8, 1, 6, 2, 9, 7, 5>>),
         L(<<7, 2, 1, 9, 8, 5, 6, 4, 3>>),
         L(<<8, 7, 6, 2, 3, 4, 5, 1, 9>>),
         L(<<1, 3, 4, 5, 9, 8, 7, 2, 6>>),
         L(<<9, 5, 2, 6, 1, 7, 4, 3, 8>>) >>)

Cells == (0..8) \X (0..8)

\* Input cells <<row, column>> that the small inputs may leave empty.
BlankCells == {<<0, 0>>, <<0, 1>>, <<1, 0>>, <<1, 1>>, <<2, 2>>, <<8, 8>>}

Diagonal == {<<k, k>> : k \in 0..8}

ExampleBlanks == {p \in Cells : ExamplePuzzle[p[1]][p[2]] = None}

\* Four empty cells, the first of them off the diagonal, that leave two
\* candidates (6 and 8) for row 1, column 0.
FourBlanks == {<<0, 1>>, <<1, 0>>, <<1, 1>>, <<6, 0>>}

BlankSets ==
    (SUBSET BlankCells) \cup {Diagonal, ExampleBlanks, Cells, FourBlanks}

\* Clues <<row, column, digit>> written over the base grid.
ClueSets ==
    { {}, {<<1, 0, 1>>}, {<<1, 0, 5>>}, {<<0, 0, 5>>, <<0, 1, 5>>} }

\* The base grid with the cells of blank emptied and the clues of extra set.
InputGrid(blank, extra) ==
    [r \in 0..8 |-> [c \in 0..8 |->
        IF \E e \in extra : e[1] = r /\ e[2] = c
        THEN (CHOOSE e \in extra : e[1] = r /\ e[2] = c)[3]
        ELSE IF <<r, c>> \in blank THEN None ELSE Solved[r][c]]]

Inputs == {InputGrid(blank, extra) : blank \in BlankSets, extra \in ClueSets}

\* ------------------------------------------------------------------- state
VARIABLES
    board,          \* the argument of the constructor (list of rows)
    initial_board,  \* self.initial_board (list of columns)
    solution,       \* self.solution (list of columns)
    stack,          \* frames of backtrack_solve, innermost last
    signal,         \* value a frame has just returned to its caller
    pc,             \* "idle", "solving" or "raised"
    outcome,        \* what the last solve() did
    returned,       \* the list solve() returned, when it returned one
    entry,          \* self.solution at the moment solve() was called
    calls           \* number of solve() calls so far

vars == <<board, initial_board, solution, stack, signal, pc, outcome,
          returned, entry, calls>>

Init ==
    /\ board \in Inputs
    /\ initial_board = Construct(board)
    /\ solution = Construct(board)
    /\ stack = << >>
    /\ signal = "nothing"
    /\ pc = "idle"
    /\ outcome = "not called"
    /\ returned = << >>
    /\ entry = << >>
    /\ calls = 0

\* A fresh frame of backtrack_solve, before its first statement.
NewFrame == [at |-> "find", row |-> 0, col |-> 0, num |-> 0]

Top == stack[Len(stack)]

Caller == SubSeq(stack, 1, Len(stack) - 1)

SetTop(f) == [stack EXCEPT ![Len(stack)] = f]

\* solve() is called: it calls backtrack_solve().
Solve ==
    /\ pc = "idle"
    /\ calls < MaxCalls
    /\ pc' = "solving"
    /\ calls' = calls + 1
    /\ entry' = solution
    /\ stack' = <<NewFrame>>
    /\ signal' = "nothing"
    /\ outcome' = "pending"
    /\ UNCHANGED <<board, initial_board, solution, returned>>

\* The call nests deeper than the interpreter allows: RecursionError
\* unwinds every frame (no handler anywhere) and leaves solve().
RecursionOverflow ==
    /\ pc = "solving"
    /\ stack # << >>
    /\ Top.at = "find"
    /\ Len(stack) > RecursionLimit
    /\ pc' = "raised"
    /\ stack' = << >>
    /\ outcome' = "RecursionError"
    /\ UNCHANGED <<board, initial_board, solution, signal, returned, entry,
                   calls>>

\* empty = self.find_empty(); if not empty: return True
BaseCase ==
    /\ pc = "solving"
    /\ stack # << >>
    /\ Top.at = "find"
    /\ Len(stack) <= RecursionLimit
    /\ find_empty(solution) = NoCell
    /\ stack' = Caller
    /\ signal' = "True"
    /\ UNCHANGED <<board, initial_board, solution, pc, outcome, returned,
                   entry, calls>>

\* row, col = empty; the for loop starts at num = 1
PickCell ==
    /\ pc = "solving"
    /\ stack # << >>
    /\ Top.at = "find"
    /\ Len(stack) <= RecursionLimit
    /\ find_empty(solution) # NoCell
    /\ LET empty == find_empty(solution)
       IN  stack' = SetTop([at |-> "loop", row |-> empty[1],
                            col |-> empty[2], num |-> 1])
    /\ UNCHANGED <<board, initial_board, solution, signal, pc, outcome,
                   returned, entry, calls>>

\* if self.is_valid(num, (col, row)) is false: next num
Skip ==
    /\ pc = "solving"
    /\ stack # << >>
    /\ Top.at = "loop"
    /\ Top.num <= 9
    /\ ~is_valid(solution, Top.num, <<Top.col, Top.row>>)
    /\ stack' = SetTop([Top EXCEPT !.num = @ + 1])
    /\ UNCHANGED <<board, initial_board, solution, signal, pc, outcome,
                   returned, entry, calls>>

\* Place when self.solution and self.initial_board are one list object.
Place_aliased ==
    /\ pc = "solving"
    /\ stack # << >>
    /\ Top.at = "loop"
    /\ Top.num <= 9
    /\ is_valid(solution, Top.num, <<Top.col, Top.row>>)
    /\ solution' = [solution EXCEPT ![Top.col][Top.row] = Top.num]
    /\ initial_board' = solution'
    /\ stack' = Append(SetTop([Top EXCEPT !.at = "wait"]), NewFrame)
    /\ UNCHANGED <<board, signal, pc, outcome, returned, entry, calls>>

\* self.solution[col][row] = num; self.backtrack_solve() is called
Place ==
    /\ pc = "solving"
    /\ stack # << >>
    /\ Top.at = "loop"
    /\ Top.num <= 9
    /\ is_valid(solution, Top.num, <<Top.col, Top.row>>)
    /\ solution' = [solution EXCEPT ![Top.col][Top.row] = Top.num]
    /\ stack' = Append(SetTop([Top EXCEPT !.at = "wait"]), NewFrame)
    /\ UNCHANGED <<board, initial_board, signal, pc, outcome, returned,
                   entry, calls>>

\* the for loop is exhausted: return False
Exhausted ==
    /\ pc = "solving"
    /\ stack # << >>
    /\ Top.at = "loop"
    /\ Top.num > 9
    /\ stack' = Caller
    /\ signal' = "False"
    /\ UNCHANGED <<board, initial_board, solution, pc, outcome, returned,
                   entry, calls>>

\* if self.backtrack_solve(): return True
Propagate ==
    /\ pc = "solving"
    /\ stack # << >>
    /\ Top.at = "wait"
    /\ signal = "True"
    /\ stack' = Caller
    /\ UNCHANGED <<board, initial_board, solution, signal, pc, outcome,
                   returned, entry, calls>>

\* self.solution[col][row] = None; next num
Undo ==
    /\ pc = "solving"
    /\ stack # << >>
    /\ Top.at = "wait"
    /\ signal = "False"
    /\ solution' = [solution EXCEPT ![Top.col][Top.row] = None]
    /\ stack' = SetTop([Top EXCEPT !.at = "loop", !.num = @ + 1])
    /\ signal' = "nothing"
    /\ UNCHANGED <<board, initial_board, pc, outcome, returned, entry, calls>>

\* solve(): return self.solution if backtrack_solve() was true, else None
SolveReturn ==
    /\ pc = "solving"
    /\ stack = << >>
    /\ signal \in {"True", "False"}
    /\ pc' = "idle"
    /\ outcome' = IF signal = "True" THEN "grid" ELSE "none"
    /\ returned' = IF signal = "True" THEN solution ELSE << >>
    /\ signal' = "nothing"
    /\ UNCHANGED <<board, initial_board, solution, stack, entry, calls>>

Next ==
    \/ Solve
    \/ RecursionOverflow
    \/ BaseCase
    \/ PickCell
    \/ Skip
    \/ Place
    \/ Exhausted
    \/ Propagate
    \/ Undo
    \/ SolveReturn

Spec == Init /\ [][Next]_vars

\* ------------------------------------------------------------ construction
\* The base grid with entry (r, c) replaced by v.
WithEntry(r, c, v) == [Solved EXCEPT ![r][c] = v]

\* The base grid with row r cut to its first n entries.
WithRowLength(r, n) == [Solved EXCEPT ![r] = Slice(Solved[r], 0, n)]

\* The first n rows of the base grid followed by the example's rows.
WithRowCount(n) ==
    [r \in 0..(n - 1) |-> IF r < 9 THEN Solved[r] ELSE ExamplePuzzle[r - 9]]

\* Arguments the constructor may be called with, malformed ones included:
\* an entry 0 or 10, a short row, too few or too many rows.
RawInputs ==
    {Solved, ExamplePuzzle}
        \cup {WithEntry(p[1], p[2], v) : p \in Cells, v \in {0, 10}}
        \cup {WithRowLength(r, n) : r \in 0..8, n \in {0, 8}}
        \cup {WithRowCount(n) : n \in 0..10}

\* The object does not exist yet; the argument is chosen.
CtorInit ==
    /\ board \in RawInputs
    /\ initial_board = << >>
    /\ solution = << >>
    /\ stack = << >>
    /\ signal = "nothing"
    /\ pc = "new"
    /\ outcome = "not called"
    /\ returned = << >>
    /\ entry = << >>
    /\ calls = 0

\* Sudoku(board): __init__ builds both grids; it has no check and no raise.
New ==
    /\ pc = "new"
    /\ initial_board' = Construct(board)
    /\ solution' = Construct(board)
    /\ pc' = "idle"
    /\ UNCHANGED <<board, stack, signal, outcome, returned, entry, calls>>

CtorNext == New

CtorSpec == CtorInit /\ [][CtorNext]_vars

\* ----------------------------------------------------------------- helpers
TypeOK ==
    /\ pc \in {"new", "idle", "solving", "raised"}
    /\ signal \in {"nothing", "True", "False"}
    /\ outcome \in {"not called", "pending", "grid", "none", "RecursionError"}
    /\ calls \in 0..MaxCalls
    /\ Len(stack) <= RecursionLimit + 1

\* The last solve() call is over (it returned or it raised).
Finished == calls > 0 /\ pc \in {"idle", "raised"}

\* Value of the working grid at row r, column c of the input's orientation
\* (the constructor stores the transposed input: solution[c][r]).
WorkCell(r, c) == solution[c][r]

RowCells(r) == {<<r, k>> : k \in 0..8}

ColumnCells(c) == {<<k, c>> : k \in 0..8}

\* Block (bx, by) of the input's orientation: rows 3bx..3bx+2, columns
\* 3by..3by+2.
BlockCells(bx, by) == {<<3 * bx + a, 3 * by + b>> : a \in 0..2, b \in 0..2}

Regions ==
    {RowCells(r) : r \in 0..8} \cup {ColumnCells(c) : c \in 0..8}
        \cup {BlockCells(bx, by) : bx \in 0..2, by \in 0..2}

\* The cells that share a row, a column or a block with <<r, c>>.
Peers(r, c) ==
    RowCells(r) \cup ColumnCells(c) \cup BlockCells(r \div 3, c \div 3)

\* The input has at least one legal completion (the base grid is one).
HasCompletion(b) ==
    \A p \in Cells : b[p[1]][p[2]] # None => b[p[1]][p[2]] = Solved[p[1]][p[2]]

HasEmpty(b) == \E p \in Cells : b[p[1]][p[2]] = None

\* Some row of the input holds the same digit twice.
RowConflict(b) ==
    \E r \in 0..8 : \E c1 \in 0..8 : \E c2 \in 0..8 :
        c1 # c2 /\ b[r][c1] # None /\ b[r][c1] = b[r][c2]

\* Some row, column or block of the input holds the same digit twice.
ClueConflict(b) ==
    \E reg \in Regions : \E p \in reg : \E q \in reg :
        p # q /\ b[p[1]][p[2]] # None /\ b[p[1]][p[2]] = b[q[1]][q[2]]

\* No cell of the stored grid (list of columns) is empty.
Full(sol) == \A c \in 0..8 : \A r \in 0..8 : sol[c][r] # None

\* ------------------------------------------------------------------ claims

\* C1: for every input that has a legal completion, solve() returns a grid
\* (not none, not an exception) and check() is true afterwards.
C1_SolvableIsSolved ==
    (Finished /\ HasCompletion(board))
        => (outcome = "grid" /\ check(solution))

\* C2: at every point, every cell that was non-empty in the input holds in
\* the working grid exactly the value it has in the given grid.
C2_CluesKept ==
    \A p \in Cells :
        board[p[1]][p[2]] # None
            => solution[p[2]][p[1]] = initial_board[p[2]][p[1]]

\* C3: solve() always comes back with a grid or with none; the search never
\* recurses without end.
C3_SolveReturns == Finished => outcome \in {"grid", "none"}

\* C4: whenever solve() returns none, the working grid is cell for cell the
\* working grid of construction.
C4_FailureRestores ==
    (pc = "idle" /\ outcome = "none") => solution = Construct(board)

\* C5: for an input without legal completion because a row holds the same
\* digit twice (and some cell is still empty), solve() returns none.
C5_ConflictGivesNone ==
    (Finished /\ RowConflict(board) /\ HasEmpty(board)) => outcome = "none"

\* C6 (as stated): whenever solve() returns a grid, check() is true on the
\* working grid, for every input, conflicting clues included.
C6_GridImpliesCheck == outcome = "grid" => check(solution)

\* C6 (amended): whenever solve() returns a grid, check() is true on the
\* working grid, provided no row, column or block of the input holds the
\* same digit twice.
C6_GridImpliesCheckWithoutConflict ==
    (outcome = "grid" /\ ~ClueConflict(board)) => check(solution)

\* C6 witness: solve() returned a grid it had to fill cells for, on an input
\* without conflicting clues.
C6_Witness ==
    /\ outcome = "grid"
    /\ ~ClueConflict(board)
    /\ HasEmpty(board)
    /\ check(solution)

\* C7: is_valid(d, (c, r)) is false exactly when d occurs in row r, in
\* column c or in the block of (r, c) of the working grid, for every digit
\* and every cell.
C7_IsValidIffAbsent ==
    \A d \in 1..9 : \A r \in 0..8 : \A c \in 0..8 :
        (~is_valid(solution, d, <<c, r>>))
            <=> \E q \in Peers(r, c) : WorkCell(q[1], q[2]) = d

\* C7 witness: during a search that has written into the grid, a digit is
\* refused for a cell only because of the cell's block.
C7_Witness ==
    /\ pc = "solving"
    /\ solution # initial_board
    /\ \E d \in 1..9 : \E r \in 0..8 : \E c \in 0..8 :
        /\ ~is_valid(solution, d, <<c, r>>)
        /\ r \div 3 # c \div 3
        /\ \A q \in RowCells(r) \cup ColumnCells(c) : WorkCell(q[1], q[2]) # d

\* C8: check() is true exactly when every row, column and block holds every
\* digit 1..9 exactly once; so it is false whenever a cell is empty.
C8_CheckIffExactlyOnce ==
    /\ check(solution)
        <=> \A reg \in Regions : \A d \in 1..9 :
                Cardinality({p \in reg : WorkCell(p[1], p[2]) = d}) = 1
    /\ (\E p \in Cells : WorkCell(p[1], p[2]) = None) => ~check(solution)

\* C8 witness: check() is true on a grid the solver has completed.
C8_Witness ==
    /\ check(solution)
    /\ solution # initial_board
    /\ pc = "idle"

C10_ReturnedIsRowMajor ==
    (pc = "idle" /\ outcome = "grid")
        => \A r \in 0..8 : \A c \in 0..8 :
               returned[r][c] = get_row(solution, r)[c]

\* The argument is 9 rows of 9 entries, each empty or a digit 1..9.
WellFormed(b) ==
    /\ PyLen(b) = 9
    /\ \A r \in DOMAIN b :
        /\ PyLen(b[r]) = 9
        /\ \A c \in DOMAIN b[r] : b[r][c] = None \/ b[r][c] \in 1..9

\* C11: construction rejects every malformed input (wrong dimensions, an
\* entry that is neither empty nor 1..9): a board is only ever built from a
\* well-formed argument, never from a truncated or coerced one.
C11_MalformedRejected == pc = "idle" => WellFormed(board)

\* Column c of the argument, top to bottom.
InputColumn(b, c) == [r \in 0..8 |-> b[r][c]]

\* C12: get_row(i) is row i left to right and get_column(i) is column i top
\* to bottom in the input's sense: right after construction they equal input
\* row i and input column i, and at every time the two views agree on the
\* cell they share.
C12_RowsAndColumns ==
    \A i \in 0..8 :
        /\ DOMAIN get_row(solution, i) = 0..8
        /\ DOMAIN get_column(solution, i) = 0..8
        /\ calls = 0 =>
            /\ get_row(solution, i) = board[i]
            /\ get_column(solution, i) = InputColumn(board, i)
        /\ \A k \in 0..8 :
            get_row(solution, i)[k] = get_column(solution, k)[i]

\* C12 witness: a freshly constructed board with empty cells whose row 0
\* differs from its column 0.
C12_Witness ==
    /\ calls = 0
    /\ pc = "idle"
    /\ HasEmpty(board)
    /\ get_row(solution, 0) = board[0]
    /\ get_row(solution, 0) # get_column(solution, 0)

\* C13 (as stated): get_nine_square(x, y) is the block of rows 3x..3x+2 and
\* columns 3y..3y+2, listed row by row: entry [k][m] is the cell at row
\* 3x+k, column 3y+m.
C13_BlockRowMajor ==
    \A x \in 0..2 : \A y \in 0..2 : \A k \in 0..2 : \A m \in 0..2 :
        get_nine_square(solution, x, y)[k][m] = WorkCell(3 * x + k, 3 * y + m)

\* C13 (amended): get_nine_square(x, y) is three lists of three cells; it is
\* the block of columns 3x..3x+2 and rows 3y..3y+2, listed column by column:
\* entry [k][m] is the cell at row 3y+m, column 3x+k.
C13_BlockColumnMajor ==
    \A x \in 0..2 : \A y \in 0..2 :
        /\ DOMAIN get_nine_square(solution, x, y) = 0..2
        /\ \A k \in 0..2 :
            /\ DOMAIN get_nine_square(solution, x, y)[k] = 0..2
            /\ \A m \in 0..2 :
                get_nine_square(solution, x, y)[k][m]
                    = WorkCell(3 * y + m, 3 * x + k)

\* C13 witness: on a grid the solver has written into, the list returned
\* for block (0, 1) does not hold the digits of rows 0..2, columns 3..5.
C13_Witness ==
    /\ solution # initial_board
    /\ Flat(get_nine_square(solution, 0, 1))
           # {WorkCell(p[1], p[2]) : p \in BlockCells(0, 1)}
    /\ Flat(get_nine_square(solution, 0, 1))
           = {WorkCell(p[1], p[2]) : p \in BlockCells(1, 0)}

\* C14: the given grid never changes after construction: it always holds
\* the values of the input, so "cell was given" is "input cell was
\* non-empty", whatever the solver does to the working grid.
C14_GivenGridFixed ==
    /\ initial_board = Construct(board)
    /\ \A p \in Cells :
        (initial_board[p[2]][p[1]] # None) <=> (board[p[1]][p[2]] # None)
    /\ \A p \in Cells :
        board[p[1]][p[2]] # None => initial_board[p[2]][p[1]] = board[p[1]][p[2]]

\* C14 witness: a solve() is over that left the working grid different
\* from the given grid at a cell that was a clue.
C14_Witness ==
    /\ Finished
    /\ \E p \in Cells :
        /\ board[p[1]][p[2]] # None
        /\ solution[p[2]][p[1]] # initial_board[p[2]][p[1]]

\* C15: every cell the search changes is the cell find_empty returned to the
\* writing frame (solution[j][i] for the returned (j, i), kept in the frame
\* as row, col), and a digit is only written where the cell was empty.
C15_WritesFoundCell ==
    [][\A c \in 0..8 : \A r \in 0..8 :
          solution'[c][r] # solution[c][r]
              => /\ c = Top.row
                 /\ r = Top.col
                 /\ solution'[c][r] # None => solution[c][r] = None]_vars

\* Number of empty cells of a stored grid.
NumEmpty(sol) == Cardinality({p \in Cells : sol[p[1]][p[2]] = None})

\* C16: the search never nests more recursive calls than there were empty
\* cells when solve() was called (the outermost frame is not a recursive
\* call).
C16_DepthBounded ==
    pc = "solving" => Len(stack) - 1 <= NumEmpty(entry)

\* C17 (as stated): find_empty returns none exactly when no cell is empty;
\* otherwise the cell it returns is empty and is the first empty cell in
\* column-major order (column 0 rows 0..8, then column 1, ...).
C17_FirstEmptyColumnMajor ==
    LET e == find_empty(solution)
    IN  /\ (e = NoCell) <=> Full(solution)
        /\ e # NoCell =>
            /\ solution[e[1]][e[2]] = None
            /\ \A p \in Cells :
                WorkCell(p[1], p[2]) = None
                    => 9 * e[1] + e[2] <= 9 * p[2] + p[1]

\* C17 (amended): find_empty returns none exactly when no cell is empty;
\* otherwise it returns, as (column, row), the empty cell that is first in
\* row-major order (row 0 columns 0..8, then row 1, ...).
C17_FirstEmptyRowMajor ==
    LET e == find_empty(solution)
    IN  /\ (e = NoCell) <=> Full(solution)
        /\ e # NoCell =>
            /\ WorkCell(e[2], e[1]) = None
            /\ \A p \in Cells :
                WorkCell(p[1], p[2]) = None
                    => 9 * e[2] + e[1] <= 9 * p[1] + p[2]

\* C17 witness: during a search, the cell find_empty returns is not the
\* first empty cell in column-major order.
C17_Witness ==
    /\ pc = "solving"
    /\ find_empty(solution) # NoCell
    /\ \E p \in Cells :
        /\ WorkCell(p[1], p[2]) = None
        /\ 9 * p[2] + p[1] < 9 * find_empty(solution)[1] + find_empty(solution)[2]

\* No row, column or block of a stored grid holds the same digit twice.
NoDuplicate(sol) ==
    \A reg \in Regions : \A p \in reg : \A q \in reg :
        (p # q /\ sol[p[2]][p[1]] # None)
            => sol[p[2]][p[1]] # sol[q[2]][q[1]]

\* C18: every digit the search writes passed is_valid for the very cell it
\* is written into, on the grid as it was just before the write; a write to
\* a grid without a duplicate in any region leaves it without one.
C18_NoDuplicateIntroduced ==
    [][\A c \in 0..8 : \A r \in 0..8 :
          (solution'[c][r] # solution[c][r] /\ solution'[c][r] # None)
              => /\ is_valid(solution, solution'[c][r], <<c, r>>)
                 /\ NoDuplicate(solution) => NoDuplicate(solution')]_vars

\* C18 witness: on an input without conflicting clues, the search has
\* written a digit over a non-empty cell and is two frames deep.
C18_Witness ==
    /\ pc = "solving"
    /\ ~ClueConflict(board)
    /\ Len(stack) >= 2
    /\ NoDuplicate(solution)
    /\ \E p \in Cells :
        /\ board[p[1]][p[2]] # None
        /\ solution[p[2]][p[1]] \notin {None, initial_board[p[2]][p[1]]}

====
